---- MODULE Spec2Model ----
(***************************************************************************)
(* Integration registry and execution pipeline                             *)
(* (scripts/integrations/registry.py, base.py, linkedin.py).               *)
(*                                                                         *)
(* Python values are modelled as follows.  A dict is a function whose      *)
(* DOMAIN is its set of keys (an absent key is absent from the DOMAIN).    *)
(* A JSON value whose type matters (a config that may or may not be a      *)
(* mapping, a contact entry that may be null) is tagged with its type.     *)
(* A str built by concatenation or by str.format is the sequence of its    *)
(* chunks.  A dict that preserves insertion order (the registry, the       *)
(* integrations mapping) is the sequence of its items.                     *)
(***************************************************************************)
EXTENDS Integers, Sequences, FiniteSets, TLC

VARIABLES
    _integrations,        \* IntegrationRegistry._integrations (ordered items)
    plugin,               \* behaviour of the third-party BaseIntegration subclass
    environ,              \* os.environ: value of LINKEDIN_ACCESS_TOKEN
    pc,                   \* position of the process
    profile_data,         \* run_all: profile_data
    integrations_config,  \* run_all: integrations_config (ordered items)
    idx,                  \* run_all: position of the for loop in the items
    results,              \* run_all: results
    enabled_count,        \* run_all: enabled_count
    stdout,               \* what the process has printed
    calls,                \* history: adapter methods invoked, per config entry
    origin,               \* history: config entry each element of results came from
    registered,           \* history: the register() calls made, in order
    previous              \* the report the previous run_all returned, if any

vars == <<_integrations, plugin, environ, pc, profile_data, integrations_config,
          idx, results, enabled_count, stdout, calls, origin, registered, previous>>

(***************************************************************************)
(* Bounds                                                                  *)
(***************************************************************************)
MaxEntries == 2          \* entries of the integrations mapping (multi-entry inputs)
MaxRegisterCalls == 2    \* register() calls before the run
MaxStartupCalls == 3     \* register() calls when the registry is studied alone

(***************************************************************************)
(* Python / JSON values                                                    *)
(***************************************************************************)
EmptyDict == [k \in {} |-> TRUE]
None == "<None>"
JsonObject(d) == [type |-> "dict", value |-> d]
JsonBool(b) == [type |-> "bool", value |-> b]
JsonNull == [type |-> "NoneType"]
PyNone == [type |-> "NoneType"]

\* dict.get(key, default)
Get(d, key, default) == IF key \in DOMAIN d THEN d[key] ELSE default

Last(s) == s[Len(s)]


(***************************************************************************)
(* Names and classes                                                       *)
(***************************************************************************)
Names == {"linkedin", "twitter", "unknown-platform"}
RegisteredNames == {"linkedin", "twitter"}
Classes == {"LinkedInIntegration", "PluginIntegration"}

(***************************************************************************)
(* Outcome of a call: a returned value or a raised exception (its str()),  *)
(* with the methods it went through and what it printed.                   *)
(***************************************************************************)
Return(v, steps, out) == [kind |-> "return", value |-> v, steps |-> steps, out |-> out]
Raise(e, steps, out) == [kind |-> "raise", error |-> e, steps |-> steps, out |-> out]

\* str(AttributeError) of a .get on a value that is no mapping
NoGetAttr(type) == <<"'", type, "' object has no attribute 'get'">>

(***************************************************************************)
(* base.py: BaseIntegration                                                *)
(***************************************************************************)
\* BaseIntegration.__init__: config.get raises when config is no mapping
BaseInit(cls, config, pdata) ==
    IF config.type # "dict"
    THEN Raise(NoGetAttr(config.type), <<"__init__">>, <<>>)
    ELSE Return([cls |-> cls,
                 config |-> config.value,
                 profile_data |-> pdata,
                 enabled |-> Get(config.value, "enabled", FALSE)],
                <<"__init__">>, <<>>)

\* BaseIntegration.is_enabled
is_enabled(self) == self.enabled

\* BaseIntegration.get_name
get_name(self) ==
    IF self.cls = "LinkedInIntegration" THEN "linkedin" ELSE "plugin"

(***************************************************************************)
(* linkedin.py: LinkedInIntegration                                        *)
(***************************************************************************)
DRY_RUN == "dry-run"

\* mutant: only an unset variable counts as a missing token
validate_config_UnsetOnly(self, token) ==
    LET post_on_update == Get(self.config, "postOnUpdate", FALSE)
    IN  IF token = None THEN FALSE
        ELSE IF ~post_on_update THEN FALSE
        ELSE TRUE

\* LinkedInIntegration.validate_config
validate_config(self, token) ==
    LET post_on_update == Get(self.config, "postOnUpdate", FALSE)
    IN  IF token = None \/ token = "" THEN FALSE
        ELSE IF ~post_on_update THEN FALSE
        ELSE TRUE

\* LinkedInIntegration._default_template
_default_template ==
    << [lit |-> "Acabo de actualizar mi perfil profesional. Visita "],
       [field |-> "github_url"],
       [lit |-> " para ver mis ultimos trabajos y experiencia. #OpenToWork"] >>

\* str.format(**kwargs): each replacement field is looked up in kwargs
\* (KeyError, whose str() is the repr of the key, when it is missing)
RECURSIVE Format(_, _)
Format(template, kwargs) ==
    IF template = <<>> THEN [kind |-> "return", value |-> <<>>]
    ELSE LET t == Head(template)
             rest == Format(Tail(template), kwargs)
         IN  IF "field" \in DOMAIN t /\ t.field \notin DOMAIN kwargs
             THEN [kind |-> "raise", error |-> <<"'", t.field, "'">>]
             ELSE IF rest.kind = "raise" THEN rest
             ELSE [kind |-> "return",
                   value |-> (IF "field" \in DOMAIN t THEN kwargs[t.field] ELSE <<t.lit>>)
                             \o rest.value]

\* profile_data.get('profile', {}).get('contact', {}).get('github', '')
ContactGithub(pdata) ==
    LET contact == Get(Get(pdata, "profile", EmptyDict), "contact", JsonObject(EmptyDict))
    IN  IF contact.type # "dict"
        THEN [kind |-> "raise", error |-> NoGetAttr(contact.type)]
        ELSE [kind |-> "return", value |-> Get(contact.value, "github", <<>>)]

\* LinkedInIntegration._generate_post
_generate_post(self) ==
    LET template == Get(self.config, "postTemplate", <<>>)  \* None and '' are both falsy
        github == ContactGithub(self.profile_data)
    IN  IF github.kind = "raise" THEN github
        ELSE IF template # <<>>
        THEN Format(template,
                    [name |-> Get(Get(self.profile_data, "profile", EmptyDict), "name", <<"My">>),
                     version |-> Get(Get(self.profile_data, "metadata", EmptyDict), "version", <<"1.0.0">>),
                     github |-> github.value])
        ELSE Format(_default_template,
                    [github_url |-> IF github.value # <<>>
                                    THEN <<"https://github.com/">> \o github.value
                                    ELSE <<"my GitHub">>])

\* mutant: the dry-run sentinel is not recognised
_publish_post_NoDryRun(content, token) ==
    Return([type |-> "dict", success |-> FALSE, platform |-> "linkedin",
            message |-> <<"LinkedIn API not implemented yet. Set LINKEDIN_ACCESS_TOKEN=dry-run for simulation.">>,
            note |-> "See scripts/integrations/linkedin.py for implementation details"],
           <<"_publish_post">>, <<>>)

\* mutant: the sentinel is compared without regard to case
_publish_post_IgnoresCase(content, token) ==
    IF token \in {DRY_RUN, "DRY-RUN"}
    THEN Return([type |-> "dict", success |-> TRUE, platform |-> "linkedin",
                 message |-> <<"Post simulated successfully (dry-run mode)">>,
                 post_content |-> content],
                <<"_publish_post">>, <<[kind |-> "dry_run", content |-> content]>>)
    ELSE Return([type |-> "dict", success |-> FALSE, platform |-> "linkedin",
                 message |-> <<"LinkedIn API not implemented yet. Set LINKEDIN_ACCESS_TOKEN=dry-run for simulation.">>,
                 note |-> "See scripts/integrations/linkedin.py for implementation details"],
                <<"_publish_post">>, <<>>)

\* LinkedInIntegration._publish_post
_publish_post(content, token) ==
    IF token = DRY_RUN
    THEN Return([type |-> "dict", success |-> TRUE, platform |-> "linkedin",
                 message |-> <<"Post simulated successfully (dry-run mode)">>,
                 post_content |-> content],
                <<"_publish_post">>, <<[kind |-> "dry_run", content |-> content]>>)
    ELSE Return([type |-> "dict", success |-> FALSE, platform |-> "linkedin",
                 message |-> <<"LinkedIn API not implemented yet. Set LINKEDIN_ACCESS_TOKEN=dry-run for simulation.">>,
                 note |-> "See scripts/integrations/linkedin.py for implementation details"],
                <<"_publish_post">>, <<>>)

\* mutant: execute() does not look at is_enabled()
LinkedInExecute_NoEnabledCheck(self, token) ==
    IF ~validate_config(self, token)
    THEN Return([type |-> "dict", success |-> FALSE, platform |-> "linkedin",
                 message |-> <<"Missing LINKEDIN_ACCESS_TOKEN or postOnUpdate is false">>],
                <<"execute", "validate_config">>, <<>>)
    ELSE LET post_content == _generate_post(self)
         IN  IF post_content.kind = "raise"
             THEN Raise(post_content.error,
                        <<"execute", "validate_config", "_generate_post">>, <<>>)
             ELSE LET result == _publish_post(post_content.value, token)
                  IN  Return(result.value,
                             <<"execute", "validate_config", "_generate_post">> \o result.steps,
                             result.out)

\* LinkedInIntegration.execute
LinkedInExecute(self, token) ==
    IF ~is_enabled(self)
    THEN Return([type |-> "dict", success |-> FALSE, platform |-> "linkedin",
                 message |-> <<"Integration is disabled in config">>],
                <<"execute">>, <<>>)
    ELSE IF ~validate_config(self, token)
    THEN Return([type |-> "dict", success |-> FALSE, platform |-> "linkedin",
                 message |-> <<"Missing LINKEDIN_ACCESS_TOKEN or postOnUpdate is false">>],
                <<"execute", "validate_config">>, <<>>)
    ELSE LET post_content == _generate_post(self)
         IN  IF post_content.kind = "raise"
             THEN Raise(post_content.error,
                        <<"execute", "validate_config", "_generate_post">>, <<>>)
             ELSE LET result == _publish_post(post_content.value, token)
                  IN  Return(result.value,
                             <<"execute", "validate_config", "_generate_post">> \o result.steps,
                             result.out)

(***************************************************************************)
(* A third-party subclass of BaseIntegration.  What its overrides do is    *)
(* fixed by its code, which the registry does not know: `plugin' holds it. *)
(***************************************************************************)
PluginBehaviours ==
    [is_enabled : {"base"}, execute : {"success", "failure", "none", "raises"}]
    \cup [is_enabled : {"raises"}, execute : {"success"}]

PluginFault == <<"boom">>

PluginExecute(self, behaviour) ==
    CASE behaviour.execute = "success" ->
            Return([type |-> "dict", success |-> TRUE, platform |-> get_name(self),
                    message |-> <<"Successfully posted update">>], <<"execute">>, <<>>)
      [] behaviour.execute = "failure" ->
            Return([type |-> "dict", success |-> FALSE, platform |-> get_name(self),
                    message |-> <<"Integration disabled or misconfigured">>], <<"execute">>, <<>>)
      [] behaviour.execute = "none" ->
            Return(PyNone, <<"execute">>, <<>>)
      [] behaviour.execute = "raises" ->
            Raise(PluginFault, <<"execute">>, <<>>)

\* integration.is_enabled() as dispatched on the instance's class
IsEnabledCall(self, behaviour) ==
    IF self.cls = "PluginIntegration" /\ behaviour.is_enabled = "raises"
    THEN Raise(PluginFault, <<"is_enabled">>, <<>>)
    ELSE Return(is_enabled(self), <<"is_enabled">>, <<>>)

\* integration.execute() as dispatched on the instance's class
ExecuteCall(self, behaviour, token) ==
    IF self.cls = "LinkedInIntegration"
    THEN LinkedInExecute(self, token)
    ELSE PluginExecute(self, behaviour)

(***************************************************************************)
(* registry.py: IntegrationRegistry                                        *)
(***************************************************************************)
Keys(items) == {items[i].name : i \in 1..Len(items)}

IndexOf(items, name) == CHOOSE i \in 1..Len(items) : items[i].name = name

\* mutant: the binding is always added at the end of the dict
SetItem_Append(items, name, value) ==
    Append(items, [name |-> name, value |-> value])

\* dict.__setitem__: an existing key keeps its position
SetItem(items, name, value) ==
    IF name \in Keys(items)
    THEN [items EXCEPT ![IndexOf(items, name)] = [name |-> name, value |-> value]]
    ELSE Append(items, [name |-> name, value |-> value])

\* IntegrationRegistry.get_integration
get_integration(name) ==
    IF name \in Keys(_integrations)
    THEN _integrations[IndexOf(_integrations, name)].value
    ELSE None

\* IntegrationRegistry.list_integrations
list_integrations == [i \in 1..Len(_integrations) |-> _integrations[i].name]

RunVars == <<pc, profile_data, integrations_config, idx, results, enabled_count,
             calls, origin>>

\* lines 34-35: the body of register
Registering(name, integration_class) ==
    /\ pc = "idle"
    /\ _integrations' = SetItem(_integrations, name, integration_class)
    /\ stdout' = Append(stdout, [kind |-> "registered", name |-> name])
    /\ registered' = Append(registered, [name |-> name, cls |-> integration_class])
    /\ UNCHANGED <<plugin, environ, previous, RunVars>>

\* IntegrationRegistry.register
Register(name, integration_class) ==
    /\ Len(stdout) < MaxRegisterCalls
    /\ Registering(name, integration_class)

(***************************************************************************)
(* Inputs of a run: the profile file and the environment                   *)
(***************************************************************************)
Tokens == {None, "", DRY_RUN, "AQV-secret-token"}

\* tokens that differ from the sentinel in case or by a trailing blank
NearSentinelTokens == {"DRY-RUN", "dry-run "}

GoodTemplate ==
    << [field |-> "name"], [lit |-> " released v"], [field |-> "version"],
       [lit |-> " at github.com/"], [field |-> "github"] >>
BadTemplate == << [lit |-> "New "], [field |-> "title"] >>

EnabledFields == {EmptyDict, [enabled |-> FALSE], [enabled |-> TRUE]}
PostOnUpdateFields == {EmptyDict, [postOnUpdate |-> TRUE]}
PostTemplateFields ==
    {EmptyDict, [postTemplate |-> <<>>], [postTemplate |-> GoodTemplate],
     [postTemplate |-> BadTemplate]}

\* every combination of the keys the reference adapter reads
LinkedInConfigs ==
    {JsonObject(e @@ p @@ t) :
        e \in EnabledFields, p \in PostOnUpdateFields, t \in PostTemplateFields}
    \cup {JsonObject([enabled |-> TRUE, postOnUpdate |-> FALSE])}

\* the configs that differ in what the orchestrator does with them
CoreConfigs ==
    {JsonBool(TRUE),
     JsonObject([enabled |-> FALSE, postOnUpdate |-> TRUE]),
     JsonObject([enabled |-> TRUE, postOnUpdate |-> TRUE])}

\* the part of the profile record the reference adapter reads
ProfileContents ==
    {EmptyDict,
     [profile |-> [name |-> <<"Angel">>,
                   contact |-> JsonObject([github |-> <<"AngelMaldonado">>])],
      metadata |-> [version |-> <<"2.1.0">>]],
     [profile |-> [contact |-> JsonObject([github |-> <<>>])]],
     [profile |-> [name |-> <<"Angel">>, contact |-> JsonNull]]}

FullContent == CHOOSE c \in ProfileContents : "metadata" \in DOMAIN c

DistinctNames(items) ==
    \A i, j \in 1..Len(items) : items[i].name = items[j].name => i = j

\* integrations mappings of up to MaxEntries entries
MultiEntryMappings ==
    {m \in UNION {[1..n -> [name : Names, value : CoreConfigs]] : n \in 0..MaxEntries} :
        DistinctNames(m)}

\* the configs with which the reference adapter gets as far as composing a post
PostingConfigs ==
    {c \in LinkedInConfigs :
        Get(c.value, "enabled", FALSE) /\ Get(c.value, "postOnUpdate", FALSE)}

\* profiles whose integrations mapping has the single entry `linkedin': every
\* config with the full profile, every profile content with the posting configs
ScenarioFiles ==
    {[kind |-> "ok",
      data |-> c @@ [integrations |-> <<[name |-> "linkedin", value |-> cfg]>>]] :
        c \in {FullContent}, cfg \in LinkedInConfigs}
    \cup
    {[kind |-> "ok",
      data |-> c @@ [integrations |-> <<[name |-> "linkedin", value |-> cfg]>>]] :
        c \in ProfileContents, cfg \in PostingConfigs}

OrchestrationFiles ==
    {[kind |-> "ok", data |-> FullContent @@ [integrations |-> m]] :
        m \in MultiEntryMappings}
    \cup {[kind |-> "ok", data |-> FullContent]}

ProfileFiles ==
    {[kind |-> "missing"], [kind |-> "invalid"]} \cup ScenarioFiles \cup OrchestrationFiles

(***************************************************************************)
(* registry.py: IntegrationRegistry.run_all                                *)
(***************************************************************************)
Emit(line) == stdout' = Append(stdout, line)

\* a call run_all makes on the adapter of entry i
Call(i, method, outcome) ==
    [entry |-> i, method |-> method, outcome |-> outcome.kind,
     error |-> IF outcome.kind = "raise" THEN outcome.error ELSE <<>>,
     steps |-> outcome.steps]

\* lines 71-81: the profile file is missing, sys.exit(1)
LoadNotFound(file) ==
    /\ pc = "idle"
    /\ file.kind = "missing"
    /\ pc' = "exited"
    /\ Emit([kind |-> "profile_not_found"])
    /\ UNCHANGED <<_integrations, plugin, environ, registered, previous, profile_data, integrations_config,
                   idx, results, enabled_count, calls, origin>>

\* lines 71-81: the profile file is not JSON, sys.exit(1)
LoadInvalidJson(file) ==
    /\ pc = "idle"
    /\ file.kind = "invalid"
    /\ pc' = "exited"
    /\ Emit([kind |-> "invalid_json"])
    /\ UNCHANGED <<_integrations, plugin, environ, registered, previous, profile_data, integrations_config,
                   idx, results, enabled_count, calls, origin>>

\* mutant: no short-circuit, an empty mapping starts the loop
LoadNothingConfigured_StartsLoop(file) ==
    /\ pc = "idle"
    /\ file.kind = "ok"
    /\ Get(file.data, "integrations", <<>>) = <<>>
    /\ profile_data' = file.data
    /\ integrations_config' = <<>>
    /\ results' = <<>>
    /\ enabled_count' = 0
    /\ idx' = 1
    /\ pc' = "running"
    /\ Emit([kind |-> "running_integrations", available |-> list_integrations])
    /\ UNCHANGED <<_integrations, plugin, environ, registered, previous, calls, origin>>

\* lines 83-87: nothing configured, return []
LoadNothingConfigured(file) ==
    /\ pc = "idle"
    /\ file.kind = "ok"
    /\ Get(file.data, "integrations", <<>>) = <<>>
    /\ profile_data' = file.data
    /\ integrations_config' = <<>>
    /\ results' = <<>>
    /\ pc' = "done"
    /\ Emit([kind |-> "no_integrations_configured"])
    /\ UNCHANGED <<_integrations, plugin, environ, registered, previous, idx, enabled_count, calls, origin>>

\* lines 83-93: the loop over the configured entries starts
LoadAndStart(file) ==
    /\ pc = "idle"
    /\ file.kind = "ok"
    /\ Get(file.data, "integrations", <<>>) # <<>>
    /\ profile_data' = file.data
    /\ integrations_config' = file.data["integrations"]
    /\ results' = <<>>
    /\ enabled_count' = 0
    /\ idx' = 1
    /\ pc' = "running"
    /\ Emit([kind |-> "running_integrations", available |-> list_integrations])
    /\ UNCHANGED <<_integrations, plugin, environ, registered, previous, calls, origin>>

InLoop == pc = "running" /\ idx <= Len(integrations_config)
name == integrations_config[idx].name
config == integrations_config[idx].value
integration_class == get_integration(name)
constructed == BaseInit(integration_class, config, profile_data)
integration == constructed.value
enabled == IsEnabledCall(integration, plugin)
executed == ExecuteCall(integration, plugin, environ)

Resolved == InLoop /\ integration_class # None
Constructed == Resolved /\ constructed.kind = "return"
Eligible == Constructed /\ enabled.kind = "return" /\ enabled.value

\* lines 120-127: the failure result built at the fault boundary
error_result(n, e) ==
    [type |-> "dict", success |-> FALSE, platform |-> n,
     message |-> <<"Error: ">> \o e, error |-> e]

\* mutant: an unregistered name is reported as a failure
SkipNotFound_Reported ==
    /\ InLoop
    /\ integration_class = None
    /\ Emit([kind |-> "not_found", name |-> name])
    /\ results' = Append(results, error_result(name, <<"not found">>))
    /\ origin' = Append(origin, idx)
    /\ idx' = idx + 1
    /\ UNCHANGED <<_integrations, plugin, environ, registered, previous, pc, profile_data, integrations_config,
                   enabled_count, calls>>

\* lines 96-100: the name is not registered
SkipNotFound ==
    /\ InLoop
    /\ integration_class = None
    /\ Emit([kind |-> "not_found", name |-> name])
    /\ idx' = idx + 1
    /\ UNCHANGED <<_integrations, plugin, environ, registered, previous, pc, profile_data, integrations_config,
                   results, enabled_count, calls, origin>>

\* line 102: the constructor raises, outside the try
ConstructRaises ==
    /\ Resolved
    /\ constructed.kind = "raise"
    /\ calls' = Append(calls, Call(idx, "__init__", constructed))
    /\ pc' = "crashed"
    /\ UNCHANGED <<_integrations, plugin, environ, registered, previous, profile_data, integrations_config,
                   idx, results, enabled_count, stdout, origin>>

\* line 104: is_enabled() raises, outside the try
IsEnabledRaises ==
    /\ Constructed
    /\ enabled.kind = "raise"
    /\ calls' = calls \o <<Call(idx, "__init__", constructed),
                           Call(idx, "is_enabled", enabled)>>
    /\ pc' = "crashed"
    /\ UNCHANGED <<_integrations, plugin, environ, registered, previous, profile_data, integrations_config,
                   idx, results, enabled_count, stdout, origin>>

\* lines 104-106: the adapter is disabled
SkipDisabled ==
    /\ Constructed
    /\ enabled.kind = "return" /\ ~enabled.value
    /\ calls' = calls \o <<Call(idx, "__init__", constructed),
                           Call(idx, "is_enabled", enabled)>>
    /\ Emit([kind |-> "disabled", name |-> name])
    /\ idx' = idx + 1
    /\ UNCHANGED <<_integrations, plugin, environ, registered, previous, pc, profile_data, integrations_config,
                   results, enabled_count, origin>>

CallsOfEligible ==
    calls \o <<Call(idx, "__init__", constructed), Call(idx, "is_enabled", enabled),
               Call(idx, "execute", executed)>>

\* mutant: the result is put at the front of the report
ExecuteReturnsDict_Prepend ==
    /\ Eligible
    /\ executed.kind = "return" /\ executed.value.type = "dict"
    /\ enabled_count' = enabled_count + 1
    /\ results' = <<executed.value>> \o results
    /\ origin' = <<idx>> \o origin
    /\ stdout' = stdout \o <<[kind |-> "running", name |-> name]>> \o executed.out
                        \o <<[kind |-> IF executed.value.success THEN "ok" ELSE "warn",
                              name |-> name, message |-> executed.value.message]>>
    /\ calls' = CallsOfEligible
    /\ idx' = idx + 1
    /\ UNCHANGED <<_integrations, plugin, environ, registered, previous, pc, profile_data, integrations_config>>

\* lines 108-118: execute() returns a dict
ExecuteReturnsDict ==
    /\ Eligible
    /\ executed.kind = "return" /\ executed.value.type = "dict"
    /\ enabled_count' = enabled_count + 1
    /\ results' = Append(results, executed.value)
    /\ origin' = Append(origin, idx)
    /\ stdout' = stdout \o <<[kind |-> "running", name |-> name]>> \o executed.out
                        \o <<[kind |-> IF executed.value.success THEN "ok" ELSE "warn",
                              name |-> name, message |-> executed.value.message]>>
    /\ calls' = CallsOfEligible
    /\ idx' = idx + 1
    /\ UNCHANGED <<_integrations, plugin, environ, registered, previous, pc, profile_data, integrations_config>>

\* lines 108-128: execute() returns a value without .get; line 113 has appended
\* it when line 115 raises AttributeError into the handler of line 120
ExecuteReturnsNonDict ==
    /\ Eligible
    /\ executed.kind = "return" /\ executed.value.type # "dict"
    /\ enabled_count' = enabled_count + 1
    /\ results' = results \o <<executed.value,
                               error_result(name, NoGetAttr(executed.value.type))>>
    /\ origin' = origin \o <<idx, idx>>
    /\ stdout' = stdout \o <<[kind |-> "running", name |-> name]>> \o executed.out
                        \o <<[kind |-> "error", name |-> name,
                              message |-> NoGetAttr(executed.value.type)]>>
    /\ calls' = CallsOfEligible
    /\ idx' = idx + 1
    /\ UNCHANGED <<_integrations, plugin, environ, registered, previous, pc, profile_data, integrations_config>>

\* mutant: no fault boundary, the exception leaves run_all
ExecuteRaises_Propagates ==
    /\ Eligible
    /\ executed.kind = "raise"
    /\ enabled_count' = enabled_count + 1
    /\ stdout' = stdout \o <<[kind |-> "running", name |-> name]>> \o executed.out
    /\ calls' = CallsOfEligible
    /\ pc' = "crashed"
    /\ UNCHANGED <<_integrations, plugin, environ, registered, previous, profile_data, integrations_config,
                   idx, results, origin>>

\* lines 108-128: execute() raises, caught at line 120
ExecuteRaises ==
    /\ Eligible
    /\ executed.kind = "raise"
    /\ enabled_count' = enabled_count + 1
    /\ results' = Append(results, error_result(name, executed.error))
    /\ origin' = Append(origin, idx)
    /\ stdout' = stdout \o <<[kind |-> "running", name |-> name]>> \o executed.out
                        \o <<[kind |-> "error", name |-> name, message |-> executed.error]>>
    /\ calls' = CallsOfEligible
    /\ idx' = idx + 1
    /\ UNCHANGED <<_integrations, plugin, environ, registered, previous, pc, profile_data, integrations_config>>

LoopDone == pc = "running" /\ idx > Len(integrations_config)

\* mutant: every result is counted as a success
success_count_All(rs) == Len(rs)

\* sum(1 for r in results if r.get('success'))
RECURSIVE success_count(_)
success_count(rs) ==
    IF rs = <<>> THEN 0
    ELSE (IF Head(rs).success THEN 1 ELSE 0) + success_count(Tail(rs))

AllDicts(rs) == \A k \in 1..Len(rs) : rs[k].type = "dict"

\* lines 130-131, 136
ReturnNoneEnabled ==
    /\ LoopDone
    /\ enabled_count = 0
    /\ Emit([kind |-> "no_integrations_enabled"])
    /\ pc' = "done"
    /\ UNCHANGED <<_integrations, plugin, environ, registered, previous, profile_data, integrations_config,
                   idx, results, enabled_count, calls, origin>>

\* lines 132-136
ReturnWithSummary ==
    /\ LoopDone
    /\ enabled_count # 0
    /\ AllDicts(results)
    /\ Emit([kind |-> "summary", success_count |-> success_count(results),
              enabled_count |-> enabled_count])
    /\ pc' = "done"
    /\ UNCHANGED <<_integrations, plugin, environ, registered, previous, profile_data, integrations_config,
                   idx, results, enabled_count, calls, origin>>

\* line 133: r.get on an element of results that is no dict raises
SummaryRaises ==
    /\ LoopDone
    /\ enabled_count # 0
    /\ ~AllDicts(results)
    /\ pc' = "crashed"
    /\ UNCHANGED <<_integrations, plugin, environ, registered, previous, profile_data, integrations_config,
                   idx, results, enabled_count, stdout, calls, origin>>

\* run_all has not been called before
NoReport == [returned |-> FALSE]

(***************************************************************************)
(* The process: adapters register, then run_all runs once                  *)
(***************************************************************************)
Init ==
    /\ _integrations = <<>>
    /\ plugin \in PluginBehaviours
    /\ environ \in Tokens
    /\ pc = "idle"
    /\ profile_data = EmptyDict
    /\ integrations_config = <<>>
    /\ idx = 0
    /\ results = <<>>
    /\ enabled_count = 0
    /\ stdout = <<>>
    /\ calls = <<>>
    /\ origin = <<>>
    /\ registered = <<>>
    /\ previous = NoReport

Next ==
    \/ \E n \in RegisteredNames, c \in Classes : Register(n, c)
    \/ \E file \in ProfileFiles : LoadNotFound(file)
    \/ \E file \in ProfileFiles : LoadInvalidJson(file)
    \/ \E file \in ProfileFiles : LoadNothingConfigured(file)
    \/ \E file \in ProfileFiles : LoadAndStart(file)
    \/ SkipNotFound
    \/ ConstructRaises
    \/ IsEnabledRaises
    \/ SkipDisabled
    \/ ExecuteReturnsDict
    \/ ExecuteReturnsNonDict
    \/ ExecuteRaises
    \/ ReturnNoneEnabled
    \/ ReturnWithSummary
    \/ SummaryRaises

Spec == Init /\ [][Next]_vars

(***************************************************************************)
(* Vocabulary of the properties                                            *)
(***************************************************************************)
Entries == 1..Len(integrations_config)
EntryName(i) == integrations_config[i].name
EntryConfig(i) == integrations_config[i].value

\* the positions of the report that entry i contributed
ResultsOf(i) == {p \in 1..Len(results) : origin[p] = i}

\* the calls run_all made on the adapter of entry i
CallsOf(i) == {k \in 1..Len(calls) : calls[k].entry = i}
CallsTo(i, method) == {k \in CallsOf(i) : calls[k].method = method}

ExecuteCalled(i) == CallsTo(i, "execute") # {}
ExecuteRaised(i) == \E k \in CallsTo(i, "execute") : calls[k].outcome = "raise"
FaultText(i) == calls[CHOOSE k \in CallsTo(i, "execute") : calls[k].outcome = "raise"].error

\* entry i has been taken by the loop and the loop has moved past it
Passed(i) == pc \in {"running", "done", "crashed"} /\ i < idx

Printed(line) == \E k \in 1..Len(stdout) : stdout[k] = line

\* run_all has returned its report
Returned == pc = "done"

\* C1: an adapter whose execute() raises gets exactly one result, a failure
\* carrying the fault text, and the fault leaves the loop running on the next
\* entry with everything later entries depend on untouched.
C1_FaultIsolated ==
    /\ [](\A i \in Entries : ExecuteRaised(i) =>
            /\ Cardinality(ResultsOf(i)) = 1
            /\ \A p \in ResultsOf(i) :
                  /\ results[p].type = "dict"
                  /\ results[p].success = FALSE
                  /\ results[p].message = <<"Error: ">> \o FaultText(i)
            /\ Passed(i))
    /\ [][(Len(calls') > Len(calls) /\ Last(calls').method = "execute"
                                    /\ Last(calls').outcome = "raise")
            => /\ pc' = "running"
               /\ idx' = idx + 1
               /\ Len(results') = Len(results) + 1
               /\ UNCHANGED <<_integrations, plugin, environ, profile_data,
                              integrations_config>>]_vars

\* a fault in the first entry, a success reported for a later one
C1_Witness ==
    /\ Returned
    /\ \E i, j \in Entries :
          /\ i < j
          /\ ExecuteRaised(i)
          /\ \E p \in ResultsOf(j) : results[p].success

\* C2: once the profile is loaded the run never aborts because of one adapter.
C2_NeverAbortsMidRun == pc # "crashed"

\* C3: every entry whose adapter was executed has contributed exactly one
\* result, so the report is as long as the eligible count.
C3_ExactlyOneResult ==
    /\ \A i \in Entries : ExecuteCalled(i) => Cardinality(ResultsOf(i)) = 1
    /\ Len(results) = enabled_count

\* C4: the results are in configuration order.
C4_ConfigurationOrder ==
    /\ \A p, q \in 1..Len(results) : p < q => origin[p] <= origin[q]
    /\ Returned =>
          \A i, j \in Entries :
              (i < j /\ ExecuteCalled(i) /\ ExecuteCalled(j)) =>
                  \A p \in ResultsOf(i), q \in ResultsOf(j) : p < q

\* two eligible entries, the first fails and the second succeeds
C4_Witness ==
    /\ Returned
    /\ Len(results) = 2
    /\ origin[1] < origin[2]
    /\ ~results[1].success /\ results[2].success

\* the name of entry i is not bound in the registry
Unbound(i) == EntryName(i) \notin Keys(_integrations)

NotFoundLine(i) == [kind |-> "not_found", name |-> EntryName(i)]

\* C5: an unregistered name gets no result and no adapter, a skip diagnostic
\* is printed for it and the loop moves on; a configuration of unregistered
\* names only gives an empty report.
C5_UnregisteredSkipped ==
    /\ \A i \in Entries : Unbound(i) =>
          /\ ResultsOf(i) = {}
          /\ CallsOf(i) = {}
          /\ Printed(NotFoundLine(i)) <=> Passed(i)
          /\ ~(pc = "crashed" /\ idx = i)
    /\ (\A i \in Entries : Unbound(i)) => (results = <<>> /\ pc # "crashed")

\* an unregistered name is skipped and a later entry is executed and reported
C5_Witness ==
    /\ Returned
    /\ \E i, j \in Entries :
          i < j /\ Unbound(i) /\ Printed(NotFoundLine(i)) /\ ResultsOf(j) # {}

\* the config of entry i is a mapping with enabled false or without the key
DisabledConfig(i) ==
    /\ EntryConfig(i).type = "dict"
    /\ ~Get(EntryConfig(i).value, "enabled", FALSE)

\* C6: an entry with enabled=false, or without the key, is never executed,
\* has no result, is not counted as eligible, and the run goes on after it.
C6_DisabledSkipped ==
    /\ \A i \in Entries : DisabledConfig(i) =>
          /\ ~ExecuteCalled(i)
          /\ ResultsOf(i) = {}
          /\ ~(pc = "crashed" /\ idx = i)
    /\ enabled_count = Cardinality({i \in Entries : ExecuteCalled(i)})

\* the profile has been loaded
Loaded == pc \in {"running", "done", "crashed"}

\* no integrations key, or an empty mapping
NothingConfigured == Get(profile_data, "integrations", <<>>) = <<>>

\* C7: with nothing configured run_all is Done at once with an empty report:
\* no name resolved, no adapter constructed or executed, no abort.
C7_NothingConfigured ==
    (Loaded /\ NothingConfigured) =>
        /\ Returned
        /\ results = <<>>
        /\ calls = <<>>
        /\ idx = 0
        /\ Last(stdout).kind = "no_integrations_configured"
        /\ \A k \in 1..(Len(stdout) - 1) : stdout[k].kind = "registered"

\* an empty integrations mapping while adapters are registered
C7_Witness ==
    /\ Returned
    /\ "integrations" \in DOMAIN profile_data
    /\ NothingConfigured
    /\ _integrations # <<>>

(***************************************************************************)
(* The reference adapter on its own: execute() is called on an instance    *)
(* built from any config, enabled or not                                   *)
(***************************************************************************)
ExecuteInit ==
    /\ _integrations = <<[name |-> "linkedin", value |-> "LinkedInIntegration"]>>
    /\ plugin = [is_enabled |-> "base", execute |-> "success"]
    /\ environ \in Tokens \cup NearSentinelTokens
    /\ pc = "constructed"
    /\ profile_data \in ProfileContents
    /\ integrations_config \in
          {<<[name |-> "linkedin", value |-> cfg]>> : cfg \in LinkedInConfigs}
    /\ idx = 1
    /\ results = <<>>
    /\ enabled_count = 0
    /\ stdout = <<>>
    /\ calls = <<>>
    /\ origin = <<>>
    /\ registered = <<[name |-> "linkedin", cls |-> "LinkedInIntegration"]>>
    /\ previous = NoReport

\* integration.execute() returns
DirectExecuteReturns ==
    /\ pc = "constructed"
    /\ executed.kind = "return"
    /\ results' = <<executed.value>>
    /\ origin' = <<idx>>
    /\ calls' = <<Call(idx, "execute", executed)>>
    /\ stdout' = executed.out
    /\ pc' = "returned"
    /\ UNCHANGED <<_integrations, plugin, environ, registered, previous, profile_data, integrations_config,
                   idx, enabled_count>>

\* integration.execute() raises
DirectExecuteRaises ==
    /\ pc = "constructed"
    /\ executed.kind = "raise"
    /\ calls' = <<Call(idx, "execute", executed)>>
    /\ pc' = "raised"
    /\ UNCHANGED <<_integrations, plugin, environ, registered, previous, profile_data, integrations_config,
                   idx, results, enabled_count, stdout, origin>>

ExecuteNext == DirectExecuteReturns \/ DirectExecuteRaises

SpecExecute == ExecuteInit /\ [][ExecuteNext]_vars

DISABLED_MESSAGE == <<"Integration is disabled in config">>
MISSING_MESSAGE == <<"Missing LINKEDIN_ACCESS_TOKEN or postOnUpdate is false">>
SIMULATED_MESSAGE == <<"Post simulated successfully (dry-run mode)">>

StepsTaken == UNION {{calls[k].steps[n] : n \in 1..Len(calls[k].steps)} : k \in 1..Len(calls)}

\* C8: when is_enabled() or validate_config() is false, execute() returns a
\* failure with an explanatory message, raises nothing, composes no post and
\* publishes nothing.
C8_PreconditionFailureReturned ==
    (pc \in {"returned", "raised"}
        /\ (~is_enabled(integration) \/ ~validate_config(integration, environ))) =>
        /\ pc = "returned"
        /\ results[1].type = "dict"
        /\ results[1].success = FALSE
        /\ results[1].message =
              (IF ~is_enabled(integration) THEN DISABLED_MESSAGE ELSE MISSING_MESSAGE)
        /\ StepsTaken \cap {"_generate_post", "_publish_post"} = {}

\* disabled, although token, flag, template and profile would let it post
C8_Witness ==
    /\ pc = "returned"
    /\ ~is_enabled(integration)
    /\ validate_config(integration, environ)
    /\ environ = DRY_RUN
    /\ results[1].message = DISABLED_MESSAGE

(***************************************************************************)
(* The scenarios of the reference adapter under run_all                    *)
(***************************************************************************)
\* the single entry `linkedin', enabled and posting on update, bound to the
\* reference adapter
LinkedInScenario ==
    /\ Loaded
    /\ Len(integrations_config) = 1
    /\ EntryName(1) = "linkedin"
    /\ EntryConfig(1).type = "dict"
    /\ Get(EntryConfig(1).value, "enabled", FALSE)
    /\ Get(EntryConfig(1).value, "postOnUpdate", FALSE)
    /\ get_integration("linkedin") = "LinkedInIntegration"

RunOver == pc \in {"done", "crashed"}

LocalSteps ==
    {"__init__", "is_enabled", "execute", "validate_config", "_generate_post",
     "_publish_post"}

\* every step an adapter took is one of the local ones: none is a network call
NoNetworkCall == StepsTaken \subseteq LocalSteps

TemplateOf(i) == Get(EntryConfig(i).value, "postTemplate", <<>>)

\* the post of entry i can be composed: the template uses the fields format()
\* is given, and the profile's contact entry, when present, is a mapping
Composable(i) ==
    /\ \A n \in 1..Len(TemplateOf(i)) :
          "field" \in DOMAIN TemplateOf(i)[n] =>
              TemplateOf(i)[n].field \in {"name", "version", "github"}
    /\ Get(Get(profile_data, "profile", EmptyDict), "contact",
           JsonObject(EmptyDict)).type = "dict"

\* C9 as stated: with the dry-run token the one entry of the report is a
\* simulated success, whatever the template and the profile content.
C9_DryRunAlwaysSucceeds ==
    (LinkedInScenario /\ environ = DRY_RUN /\ RunOver) =>
        /\ Returned
        /\ Len(results) = 1
        /\ results[1].success
        /\ results[1].message = SIMULATED_MESSAGE
        /\ NoNetworkCall

\* C9 as amended: the report has one entry; it is the simulated success when
\* the post can be composed, and the failure of the fault boundary when
\* composing it raises; no network call either way.
C9_DryRunSucceedsWhenComposable ==
    (LinkedInScenario /\ environ = DRY_RUN /\ RunOver) =>
        /\ Returned
        /\ Len(results) = 1
        /\ NoNetworkCall
        /\ Composable(1) =>
              /\ results[1].success
              /\ results[1].message = SIMULATED_MESSAGE
              /\ \E k \in 1..Len(stdout) : stdout[k].kind = "dry_run"
        /\ ~Composable(1) =>
              /\ ~results[1].success
              /\ ExecuteRaised(1)
              /\ results[1].message = <<"Error: ">> \o FaultText(1)

\* a configured template is formatted and the post simulated
C9_Witness ==
    /\ LinkedInScenario /\ environ = DRY_RUN /\ Returned
    /\ TemplateOf(1) = GoodTemplate
    /\ results[1].success
    /\ results[1].post_content =
          <<"Angel", " released v", "2.1.0", " at github.com/", "AngelMaldonado">>

\* C10: with the token unset or empty the one entry of the report is a
\* failure naming the missing credential, and execute() has not raised.
C10_MissingCredentialReported ==
    (LinkedInScenario /\ environ \in {None, ""} /\ RunOver) =>
        /\ Returned
        /\ Len(results) = 1
        /\ results[1].success = FALSE
        /\ results[1].message = MISSING_MESSAGE
        /\ Cardinality(CallsTo(1, "execute")) = 1
        /\ ~ExecuteRaised(1)

\* the token is the empty string and the template is one that would not format
C10_Witness ==
    /\ LinkedInScenario /\ environ = "" /\ Returned
    /\ TemplateOf(1) = BadTemplate
    /\ results[1].message = MISSING_MESSAGE

(***************************************************************************)
(* The registry on its own: a longer sequence of register() calls          *)
(***************************************************************************)
\* IntegrationRegistry.register, as called by the modules that load adapters
RegisterAtStartup(n, cls) ==
    /\ Len(registered) < MaxStartupCalls
    /\ Registering(n, cls)

RegistryNext == \E n \in RegisteredNames, c \in Classes : RegisterAtStartup(n, c)

SpecRegistry == Init /\ [][RegistryNext]_vars

\* the register() calls made for name n, by position
CallsFor(n) == {k \in 1..Len(registered) : registered[k].name = n}
LastCallFor(n) == CHOOSE k \in CallsFor(n) : \A l \in CallsFor(n) : l <= k
FirstCallFor(n) == CHOOSE k \in CallsFor(n) : \A l \in CallsFor(n) : k <= l

\* C11: get_integration gives the class of the most recent register() call for
\* the name (None when there was none); list_integrations holds each
\* registered name once, in the order the names were first registered, so a
\* re-registration moves nothing and touches no other binding.
C11_LastRegisteredWins ==
    /\ \A n \in Names :
          get_integration(n) =
              (IF CallsFor(n) = {} THEN None ELSE registered[LastCallFor(n)].cls)
    /\ \A i, j \in 1..Len(list_integrations) :
          list_integrations[i] = list_integrations[j] => i = j
    /\ {list_integrations[i] : i \in 1..Len(list_integrations)}
          = {registered[k].name : k \in 1..Len(registered)}
    /\ \A i, j \in 1..Len(list_integrations) :
          i < j => FirstCallFor(list_integrations[i]) < FirstCallFor(list_integrations[j])

\* a name is bound, another is registered, then the first is bound to another
\* class: it keeps its place and the other keeps its class
C11_Witness ==
    /\ Len(registered) = 3
    /\ registered[1].name = registered[3].name
    /\ registered[1].cls # registered[3].cls
    /\ registered[2].name # registered[1].name
    /\ list_integrations = <<registered[1].name, registered[2].name>>
    /\ get_integration(registered[1].name) = registered[3].cls
    /\ get_integration(registered[2].name) = registered[2].cls

\* the summary lines printed
SummaryLines == {k \in 1..Len(stdout) : stdout[k].kind = "summary"}

\* the entries whose name is bound and whose config enables them
EligibleEntries ==
    {i \in Entries :
        /\ ~Unbound(i)
        /\ EntryConfig(i).type = "dict"
        /\ Get(EntryConfig(i).value, "enabled", FALSE)}

Successes == {p \in 1..Len(results) : results[p].success}

\* C12: the summary gives (succeeded, eligible): eligible is the number of
\* entries that resolved and were enabled, succeeded the number of results
\* with success true, and 0 <= succeeded <= eligible; when the loop ends
\* without a summary nothing was eligible.
C12_SummaryCounts ==
    /\ \A k \in SummaryLines :
          /\ stdout[k].enabled_count = Cardinality(EligibleEntries)
          /\ stdout[k].success_count = Cardinality(Successes)
          /\ 0 <= stdout[k].success_count
          /\ stdout[k].success_count <= stdout[k].enabled_count
          /\ Returned
    /\ enabled_count <= Cardinality(EligibleEntries)
    /\ (Returned /\ SummaryLines = {}) => EligibleEntries = {}

\* two entries, one of them unregistered: one eligible, one succeeded
C12_Witness ==
    /\ Returned
    /\ Len(integrations_config) = 2
    /\ \E i \in Entries : Unbound(i)
    /\ \E k \in SummaryLines :
          stdout[k].enabled_count = 1 /\ stdout[k].success_count = 1

\* the profile file was missing or was not JSON
LoadFailed ==
    Printed([kind |-> "profile_not_found"]) \/ Printed([kind |-> "invalid_json"])

\* run_all has ended without returning a report
Aborted == pc \in {"exited", "crashed"}

\* C13: a profile that cannot be loaded ends the run with sys.exit(1) before
\* any name is resolved or adapter built, and nothing else makes run_all end
\* without a report.
C13_OnlyLoadFailureAborts ==
    /\ LoadFailed =>
          /\ pc = "exited"
          /\ idx = 0
          /\ calls = <<>>
          /\ results = <<>>
    /\ Aborted => LoadFailed

\* entry i has been looked up in the registry (line 97 has run for it)
LookedUp(i) == pc \in {"running", "done", "crashed"} /\ (i < idx \/ CallsOf(i) # {})

RunningLines == {k \in 1..Len(stdout) : stdout[k].kind = "running"}
NotFoundLines == {k \in 1..Len(stdout) : stdout[k].kind = "not_found"}

\* C14: a run resolves every configured name before it calls any adapter's
\* execute(): once an execute() has been called no name is still to be looked
\* up, and every skip diagnostic of the resolving phase precedes the first
\* adapter that is run.
C14_ResolvedBeforeExecuting ==
    /\ (\E i \in Entries : ExecuteCalled(i)) => \A j \in Entries : LookedUp(j)
    /\ \A k \in RunningLines, l \in NotFoundLines : l < k

(***************************************************************************)
(* The process calls run_all a second time on the same profile file        *)
(***************************************************************************)

\* what the caller of the first run_all holds when it calls again
FirstReport == [returned |-> TRUE, report |-> results]

\* json.load of the unchanged file gives the data of the first run
SameFile(file) == file.kind = "ok" /\ file.data = profile_data

\* lines 71-87 on the second call: nothing configured, return []
CallAgainNothingConfigured(file) ==
    /\ pc = "done"
    /\ previous = NoReport
    /\ SameFile(file)
    /\ Get(file.data, "integrations", <<>>) = <<>>
    /\ previous' = FirstReport
    /\ profile_data' = file.data
    /\ integrations_config' = <<>>
    /\ results' = <<>>
    /\ enabled_count' = 0
    /\ idx' = 0
    /\ calls' = <<>>
    /\ origin' = <<>>
    /\ pc' = "done"
    /\ Emit([kind |-> "no_integrations_configured"])
    /\ UNCHANGED <<_integrations, plugin, environ, registered>>

\* mutant: the report list outlives the call that built it
CallAgainAndStart_KeepsResults(file) ==
    /\ pc = "done"
    /\ previous = NoReport
    /\ SameFile(file)
    /\ Get(file.data, "integrations", <<>>) # <<>>
    /\ previous' = FirstReport
    /\ profile_data' = file.data
    /\ integrations_config' = file.data["integrations"]
    /\ results' = results
    /\ enabled_count' = 0
    /\ idx' = 1
    /\ calls' = <<>>
    /\ origin' = <<>>
    /\ pc' = "running"
    /\ Emit([kind |-> "running_integrations", available |-> list_integrations])
    /\ UNCHANGED <<_integrations, plugin, environ, registered>>

\* lines 71-93 on the second call: fresh results, fresh count, the loop starts
CallAgainAndStart(file) ==
    /\ pc = "done"
    /\ previous = NoReport
    /\ SameFile(file)
    /\ Get(file.data, "integrations", <<>>) # <<>>
    /\ previous' = FirstReport
    /\ profile_data' = file.data
    /\ integrations_config' = file.data["integrations"]
    /\ results' = <<>>
    /\ enabled_count' = 0
    /\ idx' = 1
    /\ calls' = <<>>
    /\ origin' = <<>>
    /\ pc' = "running"
    /\ Emit([kind |-> "running_integrations", available |-> list_integrations])
    /\ UNCHANGED <<_integrations, plugin, environ, registered>>

\* the register() calls made while the adapter modules are imported: the
\* reference adapter registers itself, a second module may add an adapter
StartupHistories ==
    {<<[name |-> "linkedin", cls |-> "LinkedInIntegration"]>>,
     <<[name |-> "linkedin", cls |-> "LinkedInIntegration"],
       [name |-> "twitter", cls |-> "PluginIntegration"]>>,
     <<[name |-> "linkedin", cls |-> "LinkedInIntegration"],
       [name |-> "twitter", cls |-> "LinkedInIntegration"]>>,
     <<[name |-> "linkedin", cls |-> "LinkedInIntegration"],
       [name |-> "linkedin", cls |-> "PluginIntegration"]>>}

\* the registry that a sequence of register() calls leaves
RECURSIVE RegistryAfter(_)
RegistryAfter(history) ==
    IF history = <<>> THEN <<>>
    ELSE SetItem(RegistryAfter(SubSeq(history, 1, Len(history) - 1)),
                 Last(history).name, Last(history).cls)

\* the process after its imports, before the first run_all
RepeatInit ==
    /\ registered \in StartupHistories
    /\ _integrations = RegistryAfter(registered)
    /\ stdout = [k \in 1..Len(registered) |->
                    [kind |-> "registered", name |-> registered[k].name]]
    /\ plugin \in PluginBehaviours
    /\ environ \in Tokens
    /\ pc = "idle"
    /\ profile_data = EmptyDict
    /\ integrations_config = <<>>
    /\ idx = 0
    /\ results = <<>>
    /\ enabled_count = 0
    /\ calls = <<>>
    /\ origin = <<>>
    /\ previous = NoReport

RepeatNext ==
    \/ \E file \in OrchestrationFiles : LoadNothingConfigured(file)
    \/ \E file \in OrchestrationFiles : LoadAndStart(file)
    \/ \E file \in OrchestrationFiles : CallAgainNothingConfigured(file)
    \/ \E file \in OrchestrationFiles : CallAgainAndStart(file)
    \/ SkipNotFound
    \/ ConstructRaises
    \/ IsEnabledRaises
    \/ SkipDisabled
    \/ ExecuteReturnsDict
    \/ ExecuteReturnsNonDict
    \/ ExecuteRaises
    \/ ReturnNoneEnabled
    \/ ReturnWithSummary
    \/ SummaryRaises

SpecRepeat == RepeatInit /\ [][RepeatNext]_vars

\* every call on an adapter in this run follows its construction in this run
BuiltInThisRun ==
    \A k \in 1..Len(calls) :
        calls[k].method # "__init__" =>
            \E j \in 1..(k - 1) :
                calls[j].entry = calls[k].entry /\ calls[j].method = "__init__"

SecondRun == previous # NoReport

\* C15: every run builds its own adapter instances, no step of run_all
\* changes the registry, and a second run_all on the same profile,
\* environment and registry returns a report equal to the first one's.
C15_RunsAreIndependent ==
    /\ [](BuiltInThisRun)
    /\ []((SecondRun /\ Returned) => results = previous.report)
    /\ [](SecondRun => pc # "crashed")
    /\ [][pc' # "idle" => _integrations' = _integrations]_vars

C15_Witness ==
    /\ SecondRun
    /\ Returned
    /\ Len(results) = 2
    /\ results[1].success # results[2].success
    /\ previous.report = results

NOT_IMPLEMENTED_MESSAGE ==
    <<"LinkedIn API not implemented yet. Set LINKEDIN_ACCESS_TOKEN=dry-run for simulation.">>

\* the instance is enabled, posts on update, and its post is composed without
\* error
ReadyToPost ==
    /\ is_enabled(integration)
    /\ Get(integration.config, "postOnUpdate", FALSE)
    /\ Composable(1)

\* C16: for an enabled reference adapter that posts on update and whose post
\* formats without error, execute() returns, and its result is a success
\* exactly when the token is the sentinel `dry-run'; any other non-empty token
\* gives the `not implemented' failure, and no token leads to a network call.
C16_SuccessOnlyForSentinel ==
    (pc \in {"returned", "raised"} /\ ReadyToPost) =>
        /\ pc = "returned"
        /\ results[1].type = "dict"
        /\ results[1].success <=> environ = DRY_RUN
        /\ environ \notin {None, "", DRY_RUN} =>
              /\ results[1].success = FALSE
              /\ results[1].message = NOT_IMPLEMENTED_MESSAGE
        /\ NoNetworkCall

\* a token that differs from the sentinel only in case is refused
C16_Witness ==
    /\ pc = "returned"
    /\ ReadyToPost
    /\ environ = "DRY-RUN"
    /\ TemplateOf(1) = GoodTemplate
    /\ results[1].message = NOT_IMPLEMENTED_MESSAGE

\* C17: every result of the report that is a mapping carries as platform the
\* configuration name under which its adapter was resolved, whether execute()
\* returned it or the fault boundary built it.
C17_PlatformIsConfiguredName ==
    \A p \in 1..Len(results) :
        results[p].type = "dict" => results[p].platform = EntryName(origin[p])

====
